---- MODULE Spec2Model ----
(***************************************************************************)
(* The auto-apply batch of src/src/cron_job.ts: autoApply loads the users, *)
(* processUsers dispatches them over an async queue of width 10, each      *)
(* user's worker refreshes the credentials and launches processVacancies   *)
(* for every Active position; processVacancies walks up to 6 result pages  *)
(* and evaluates the postings of a page concurrently.                      *)
(*                                                                         *)
(* JavaScript runs one continuation at a time: an action of this module is *)
(* the code that runs when one awaited call settles, up to the next await. *)
(* The outcome of every external call (model, job board, database) is an   *)
(* input chosen with \E.                                                   *)
(***************************************************************************)
EXTENDS Integers, Sequences, FiniteSets, TLC

\* The job board returns at most MaxEvaluations postings over the whole
\* batch (MaxShared when several criterion runs share them), at most
\* MaxPageSize of them on one page, and none after page ResultPages.
MaxEvaluations == 3
MaxShared == 2
MaxPageSize == 2
ResultPages == 2

\* The pool is watched over a list of Concurrency + Waiting users, of which
\* the token request can fail for the first MaxFailing.
Waiting == 1
MaxFailing == 2

\* The quota function is compared with its specification on 0..MaxCount.
MaxCount == 12

\* for (let page = 1; page <= 6; page++)
PageCap == 6

\* queue(worker, 10)
Concurrency == 10

\* The value of a property that a plain object does not carry.
Undefined == "undefined"

\* Tokens stored before the batch, and the pair a successful refresh returns.
PriorToken == "prior"
FreshToken == "fresh"

\* Postings the job board can return: 1 and 2 are the same job published
\* twice (same title and employer, two identifiers), 3 is another job.
Postings ==
    { [id |-> 1, name |-> "A", employer_name |-> "X"],
      [id |-> 2, name |-> "A", employer_name |-> "X"],
      [id |-> 3, name |-> "B", employer_name |-> "Y"] }

\* PositionSchema: position (required text) and status.
Position(status) == [position |-> "dev", status |-> status]

\* n positions, the first a of them Active.
PositionList(n, a) ==
    [i \in 1..n |-> Position(IF i <= a THEN "Active" ELSE "Paused")]

\* A stored user (UserSchema), with the fields the batch reads.
User(uid, n, a, hh) ==
    [_id |-> uid,
     positions |-> PositionList(n, a),
     hasHHAccount |-> hh,
     hhAccessToken |-> PriorToken,
     hhRefreshToken |-> PriorToken]

\* A stored application record (VacancySchema); run is the criterion run
\* that inserted it and stands for the _id the database assigns.
Doc(vacancy, uid, coverLetter, run) ==
    [vacancy_id |-> vacancy.id,
     job_name |-> vacancy.name,
     employer_name |-> vacancy.employer_name,
     user |-> uid,
     cover_letter |-> coverLetter,
     run |-> run]

\* A record left in the store by an earlier batch.
OldRun == <<0, 0>>
OldDoc == Doc([id |-> 3, name |-> "B", employer_name |-> "Y"], "u1", "text", OldRun)

\* The stores a batch starts from: the users, and the records stored
\* before. The last one is a database in which nobody has registered yet.
Stores ==
    { [users |-> <<User("u1", n, 1, FALSE)>>, vacancies |-> {}] :
        n \in {1, 4, 5, 7, 8, 9} }
    \cup { [users |-> <<User("u1", 8, 1, FALSE)>>, vacancies |-> {OldDoc}],
           [users |-> <<User("u1", 8, 1, TRUE)>>, vacancies |-> {}],
           [users |-> <<User("u1", 8, 2, FALSE)>>, vacancies |-> {}],
           [users |-> <<User("u1", 1, 1, FALSE), User("u2", 8, 1, FALSE)>>,
            vacancies |-> {}],
           [users |-> <<>>, vacancies |-> {}] }

\* A store with more users than the queue runs at once, none of them with
\* an Active position.
PoolStore ==
    [users |-> [i \in 1..(Concurrency + Waiting) |->
                   User("u" \o ToString(i), 1, 0, FALSE)],
     vacancies |-> {}]

VARIABLES
    UserModel,            \* the users collection
    VacanciesModel,       \* the vacancies collection
    task,                 \* autoApply: where the batch is
    users,                \* the list autoApply loaded (plain objects)
    q,                    \* the queue: users pushed and not yet started
    worker,               \* per user: where its queue worker is
    refreshed,            \* per user: how refreshAccessToken ended
    run,                  \* per criterion run: where processVacancies is
    page,                 \* per run: the loop variable
    applicationsPerPosition,  \* per run: the quota
    vacancyDocs,          \* per run: the accumulator
    processedVacancies,   \* per run: the produced count
    evaluation,           \* per run and posting: the page's map callback
    relevance,            \* per run: "threw" while every relevance call threw
    insertManyCalls,      \* per run: the arguments of its insertMany calls
    negotiationFailed,    \* per run: postings whose submission failed
    classified,           \* per run: postings passed to isSuitableVacancy
    fetched               \* postings returned by the job board so far

vars == <<UserModel, VacanciesModel, task, users, q, worker, refreshed, run,
          page, applicationsPerPosition, vacancyDocs, processedVacancies,
          evaluation, relevance, insertManyCalls, negotiationFailed,
          classified, fetched>>

dispatchVars == <<task, users, q, worker, refreshed>>
runVars == <<run, page, applicationsPerPosition, vacancyDocs,
             processedVacancies, evaluation, relevance, insertManyCalls,
             negotiationFailed, classified>>

UserIds == DOMAIN UserModel
RunIds == UNION { { <<u, i>> : i \in DOMAIN UserModel[u].positions } : u \in UserIds }

\* The state of one map callback of a page (lines 481-527): the call it
\* awaits or how it ended, and what its calls returned.
NoEvaluation ==
    [pc |-> "none", relevanceFailed |-> FALSE, resumeId |-> "unset",
     coverLetter |-> "unset"]

Settled == {"returned", "pushed", "rejected"}

ActiveRuns ==
    { r \in RunIds : UserModel[r[1]].positions[r[2]].status = "Active" }
Budget == IF Cardinality(ActiveRuns) > 1 THEN MaxShared ELSE MaxEvaluations

\* The state in which the cron job finds the program, over a given store.
Start(store) ==
    /\ UserModel = store.users
    /\ VacanciesModel = store.vacancies
    /\ task = "scheduled"
    /\ users = <<>>
    /\ q = <<>>
    /\ worker = [u \in UserIds |-> "none"]
    /\ refreshed = [u \in UserIds |-> "none"]
    /\ run = [r \in RunIds |-> "none"]
    /\ page = [r \in RunIds |-> 0]
    /\ applicationsPerPosition = [r \in RunIds |-> 0]
    /\ vacancyDocs = [r \in RunIds |-> {}]
    /\ processedVacancies = [r \in RunIds |-> 0]
    /\ evaluation = [r \in RunIds |-> [p \in Postings |-> NoEvaluation]]
    /\ relevance = [r \in RunIds |-> "none"]
    /\ insertManyCalls = [r \in RunIds |-> <<>>]
    /\ negotiationFailed = [r \in RunIds |-> {}]
    /\ classified = [r \in RunIds |-> {}]
    /\ fetched = 0

Init == \E store \in Stores : Start(store)

(***************************************************************************)
(* Pure parts of the code.                                                 *)
(***************************************************************************)

\* The first threshold off by one.
getApplicationsPerPosition_OffByOne(numPositions) ==
    IF numPositions < 4 THEN 7
    ELSE IF numPositions >= 8 THEN 2
    ELSE 6

getApplicationsPerPosition(numPositions) ==
    IF numPositions <= 4 THEN 7
    ELSE IF numPositions >= 8 THEN 2
    ELSE 6

\* Line 485: the accumulator check of a map callback.
alreadyInVacancyDocs(docs, vacancy) ==
    \E doc \in docs :
        \/ doc.vacancy_id = vacancy.id
        \/ (doc.job_name = vacancy.name /\ doc.employer_name = vacancy.employer_name)
        \/ doc.job_name = vacancy.name

\* user.id of a loaded user. autoApply loads the users with .lean(): plain
\* objects, which carry _id but not the id getter of a document.
UserDotId(user) == Undefined

\* VacanciesModel.findOne({user, job_name}): the matching records. A filter
\* value of undefined is sent to the database as null, and matches the
\* records whose field is null or missing; user is a required field.
findOne(collection, user, job_name) ==
    { doc \in collection :
        /\ IF user = Undefined THEN doc.user = "null" ELSE doc.user = user
        /\ doc.job_name = job_name }

\* A catch that lets the posting through.
isSuitableVacancy_FailOpen(outcome) ==
    outcome \in {"suitable", "throw", "unparsable"}

\* isSuitableVacancy, from what the model call does: its catch turns a
\* throwing call and an unparsable answer into false.
isSuitableVacancy(outcome) ==
    CASE outcome = "suitable" -> TRUE
      [] outcome = "notSuitable" -> FALSE
      [] outcome = "throw" -> FALSE
      [] outcome = "unparsable" -> FALSE

\* generateCoverLetter, from what the model call does: the content, or null
\* when the call throws.
generateCoverLetter(outcome) ==
    CASE outcome = "text" -> "text"
      [] outcome = "throw" -> "null"

\* The check of line 505 left out.
NoCoverLetter_Unchecked(coverLetter) == FALSE

\* Line 505: if (!coverLetter).
NoCoverLetter(coverLetter) == coverLetter \in {"null", ""}

\* sendNegotiation without its catch.
sendNegotiationRejects_Uncaught(outcome) == outcome = "fail"

\* sendNegotiation catches every error and returns a value: it never
\* rejects, whatever the job board answers.
sendNegotiationRejects(outcome) == FALSE

\* The two assignments made from the failed response as well.
refreshAccessToken_AssignsOnFailure(user, outcome) ==
    IF outcome = "ok"
    THEN [user EXCEPT !.hhAccessToken = FreshToken, !.hhRefreshToken = FreshToken]
    ELSE [user EXCEPT !.hhAccessToken = Undefined, !.hhRefreshToken = Undefined]

\* refreshAccessToken: the user object after the token request settled. On
\* success the two fields are assigned; user.save() then throws (a plain
\* object has no save) and the catch swallows it, so the stored user keeps
\* its tokens. On failure the catch is all that runs.
refreshAccessToken(user, outcome) ==
    IF outcome = "ok"
    THEN [user EXCEPT !.hhAccessToken = FreshToken, !.hhRefreshToken = FreshToken]
    ELSE user

\* The page body without its try.
PageErrorCaught_NoTry == FALSE

\* The try of lines 463-534 encloses the whole page body: an error of the
\* normalization call or of the search is caught and the loop goes on.
PageErrorCaught == TRUE

\* Schema validation of insertMany: cover_letter is a required string.
ValidDocs(docs) == { doc \in docs : doc.cover_letter \notin {"null", ""} }

\* A queue that starts one user too many.
RECURSIVE Process_OneTooMany(_, _)
Process_OneTooMany(waiting, w) ==
    IF waiting # <<>> /\ Cardinality({u \in DOMAIN w : w[u] \in {"refresh", "positions"}}) <= Concurrency
    THEN Process_OneTooMany(Tail(waiting), [w EXCEPT ![Head(waiting)] = "refresh"])
    ELSE <<waiting, w>>

\* The queue: start waiting users while fewer than Concurrency are running.
RECURSIVE Process(_, _)
Process(waiting, w) ==
    IF waiting # <<>> /\ Cardinality({u \in DOMAIN w : w[u] \in {"refresh", "positions"}}) < Concurrency
    THEN Process(Tail(waiting), [w EXCEPT ![Head(waiting)] = "refresh"])
    ELSE <<waiting, w>>

(***************************************************************************)
(* processVacancies (lines 445-547).                                       *)
(***************************************************************************)

\* insertMany called whatever the accumulator holds.
HasRecords_Always(r) == TRUE

\* Line 537: if (vacancyDocs.length > 0).
HasRecords(r) == vacancyDocs[r] # {}

\* Lines 537-546, reached when the loop ends: insertMany is called when the
\* accumulator is not empty.
AfterLoop(r) ==
    IF HasRecords(r)
    THEN /\ run' = [run EXCEPT ![r] = "insertMany"]
         /\ insertManyCalls' = [insertManyCalls EXCEPT ![r] = Append(@, vacancyDocs[r])]
    ELSE /\ run' = [run EXCEPT ![r] = "done"]
         /\ insertManyCalls' = insertManyCalls

\* page++ and the loop test, then the normalization call of the next page.
NextPage(r) ==
    /\ page' = [page EXCEPT ![r] = @ + 1]
    /\ IF page[r] + 1 <= PageCap
       THEN /\ run' = [run EXCEPT ![r] = "normalize"]
            /\ insertManyCalls' = insertManyCalls
       ELSE AfterLoop(r)

\* An error thrown in the page body.
PageError(r) ==
    IF PageErrorCaught
    THEN NextPage(r)
    ELSE /\ run' = [run EXCEPT ![r] = "rejected"]
         /\ page' = page
         /\ insertManyCalls' = insertManyCalls

\* The model call of lines 464-471 settles.
NormalizeSettles(r, outcome) ==
    /\ run[r] = "normalize"
    /\ IF outcome = "ok"
       THEN /\ run' = [run EXCEPT ![r] = "getVacancy"]
            /\ page' = page
            /\ insertManyCalls' = insertManyCalls
       ELSE PageError(r)
    /\ UNCHANGED <<UserModel, VacanciesModel, dispatchVars, fetched,
                   applicationsPerPosition, vacancyDocs, processedVacancies,
                   evaluation, relevance, negotiationFailed, classified>>

\* hhService.getVacancy rethrows its error (line 227).
GetVacancyFails(r) ==
    /\ run[r] = "getVacancy"
    /\ PageError(r)
    /\ UNCHANGED <<UserModel, VacanciesModel, dispatchVars, fetched,
                   applicationsPerPosition, vacancyDocs, processedVacancies,
                   evaluation, relevance, negotiationFailed, classified>>

\* Lines 481-489, the synchronous start of the map callback of one posting:
\* the quota check, the accumulator check, then the findOne call.
StartEvaluation(r, vacancy) ==
    IF processedVacancies[r] >= applicationsPerPosition[r]
    THEN [NoEvaluation EXCEPT !.pc = "returned"]
    ELSE IF alreadyInVacancyDocs(vacancyDocs[r], vacancy)
    THEN [NoEvaluation EXCEPT !.pc = "returned"]
    ELSE [NoEvaluation EXCEPT !.pc = "findOne"]

\* hhService.getVacancy returns a page. items.map runs every callback up to
\* its first await before anything else runs.
GetVacancyReturns(r, items) ==
    /\ run[r] = "getVacancy"
    /\ Cardinality(items) <= Budget - fetched
    /\ Cardinality(items) <= MaxPageSize
    /\ page[r] > ResultPages => items = {}
    /\ fetched' = fetched + Cardinality(items)
    /\ IF items = {}
       THEN /\ NextPage(r)
            /\ evaluation' = evaluation
       ELSE /\ run' = [run EXCEPT ![r] = "allSettled"]
            /\ page' = page
            /\ insertManyCalls' = insertManyCalls
            /\ evaluation' = [evaluation EXCEPT ![r] =
                 [p \in Postings |->
                    IF p \in items THEN StartEvaluation(r, p) ELSE NoEvaluation]]
    /\ UNCHANGED <<UserModel, VacanciesModel, dispatchVars,
                   applicationsPerPosition, vacancyDocs, processedVacancies,
                   relevance, negotiationFailed, classified>>

Awaits(r, p, call) == run[r] = "allSettled" /\ evaluation[r][p].pc = call

SetEvaluation(r, p, e) == evaluation' = [evaluation EXCEPT ![r][p] = e]

\* A callback that ended: of its locals the model keeps what made it return.
Returned(e) == [e EXCEPT !.pc = "returned", !.resumeId = "unset"]
Rejected == [NoEvaluation EXCEPT !.pc = "rejected"]
Pushed == [NoEvaluation EXCEPT !.pc = "pushed"]

\* Lines 510-526: build the record, push it, count it.
Push(r, p, e) ==
    /\ vacancyDocs' = [vacancyDocs EXCEPT ![r] =
         @ \cup {Doc(p, users[r[1]]._id, e.coverLetter, r)}]
    /\ processedVacancies' = [processedVacancies EXCEPT ![r] = @ + 1]
    /\ SetEvaluation(r, p, Pushed)

\* Line 489 settles; when no record matched, line 493 passes the posting to
\* isSuitableVacancy.
FindOneSettles(r, p, outcome) ==
    /\ Awaits(r, p, "findOne")
    /\ LET alreadyExistingVacancy ==
               findOne(VacanciesModel, UserDotId(users[r[1]]), p.name)
           e == evaluation[r][p]
       IN IF outcome = "throw"
          THEN SetEvaluation(r, p, Rejected) /\ classified' = classified
          ELSE IF alreadyExistingVacancy # {}
          THEN SetEvaluation(r, p, Returned(e)) /\ classified' = classified
          ELSE /\ SetEvaluation(r, p, [e EXCEPT !.pc = "isSuitable"])
               /\ classified' = [classified EXCEPT ![r] = @ \cup {p}]
    /\ UNCHANGED <<UserModel, VacanciesModel, dispatchVars, fetched, run, page,
                   applicationsPerPosition, vacancyDocs, processedVacancies,
                   relevance, insertManyCalls, negotiationFailed>>

\* Line 493 settles.
IsSuitableSettles(r, p, outcome) ==
    /\ Awaits(r, p, "isSuitable")
    /\ LET isSuitable == isSuitableVacancy(outcome)
           e == [evaluation[r][p] EXCEPT
                    !.relevanceFailed = outcome \in {"throw", "unparsable"}]
       IN SetEvaluation(r, p,
              IF ~isSuitable THEN Returned(e)
              ELSE IF users[r[1]].hasHHAccount
              THEN [e EXCEPT !.pc = "getSuitableResumeId"]
              ELSE [e EXCEPT !.pc = "generateCoverLetter"])
    /\ relevance' = [relevance EXCEPT ![r] =
         IF outcome # "throw" THEN "returned"
         ELSE IF @ = "none" THEN "threw" ELSE @]
    /\ UNCHANGED <<UserModel, VacanciesModel, dispatchVars, fetched, run, page,
                   applicationsPerPosition, vacancyDocs, processedVacancies,
                   insertManyCalls, negotiationFailed, classified>>

\* Line 498 settles: getSuitableResumeId returns an identifier, or undefined
\* when its catch ran (lines 295-309). Line 499 then calls getOneResume.
GetSuitableResumeIdSettles(r, p, resumeId) ==
    /\ Awaits(r, p, "getSuitableResumeId")
    /\ SetEvaluation(r, p, [evaluation[r][p] EXCEPT
           !.pc = "getOneResume", !.resumeId = resumeId])
    /\ UNCHANGED <<UserModel, VacanciesModel, dispatchVars, fetched, run, page,
                   applicationsPerPosition, vacancyDocs, processedVacancies,
                   relevance, insertManyCalls, negotiationFailed, classified>>

\* Line 499 settles: getOneResume has no catch.
GetOneResumeSettles(r, p, outcome) ==
    /\ Awaits(r, p, "getOneResume")
    /\ SetEvaluation(r, p,
           IF outcome = "ok" THEN [evaluation[r][p] EXCEPT !.pc = "loadPDF"]
           ELSE Rejected)
    /\ UNCHANGED <<UserModel, VacanciesModel, dispatchVars, fetched, run, page,
                   applicationsPerPosition, vacancyDocs, processedVacancies,
                   relevance, insertManyCalls, negotiationFailed, classified>>

\* Line 500 settles: loadPDF has no catch.
LoadPDFSettles(r, p, outcome) ==
    /\ Awaits(r, p, "loadPDF")
    /\ SetEvaluation(r, p,
           IF outcome = "ok"
           THEN [evaluation[r][p] EXCEPT !.pc = "generateCoverLetter"]
           ELSE Rejected)
    /\ UNCHANGED <<UserModel, VacanciesModel, dispatchVars, fetched, run, page,
                   applicationsPerPosition, vacancyDocs, processedVacancies,
                   relevance, insertManyCalls, negotiationFailed, classified>>

\* Line 501 or 504 settles. With a linked account the letter goes to
\* sendNegotiation whatever it is; without one, no letter ends the callback.
GenerateCoverLetterSettles(r, p, outcome) ==
    /\ Awaits(r, p, "generateCoverLetter")
    /\ LET coverLetter == generateCoverLetter(outcome)
           e == [evaluation[r][p] EXCEPT !.coverLetter = coverLetter]
       IN IF users[r[1]].hasHHAccount
          THEN /\ SetEvaluation(r, p, [e EXCEPT !.pc = "sendNegotiation"])
               /\ UNCHANGED <<vacancyDocs, processedVacancies>>
          ELSE IF NoCoverLetter(coverLetter)
          THEN /\ SetEvaluation(r, p, Returned(e))
               /\ UNCHANGED <<vacancyDocs, processedVacancies>>
          ELSE Push(r, p, e)
    /\ UNCHANGED <<UserModel, VacanciesModel, dispatchVars, fetched, run, page,
                   applicationsPerPosition, relevance, insertManyCalls,
                   negotiationFailed, classified>>

\* Line 502 settles.
SendNegotiationSettles(r, p, outcome) ==
    /\ Awaits(r, p, "sendNegotiation")
    /\ IF sendNegotiationRejects(outcome)
       THEN /\ SetEvaluation(r, p, Rejected)
            /\ UNCHANGED <<vacancyDocs, processedVacancies>>
       ELSE Push(r, p, evaluation[r][p])
    /\ negotiationFailed' = [negotiationFailed EXCEPT ![r] =
         IF outcome = "fail" THEN @ \cup {p} ELSE @]
    /\ UNCHANGED <<UserModel, VacanciesModel, dispatchVars, fetched, run, page,
                   applicationsPerPosition, relevance, insertManyCalls,
                   classified>>

\* Promise.all in the place of Promise.allSettled: it settles as soon as one
\* callback has thrown.
PromisesSettled_All(evaluations) ==
    \/ \A p \in Postings : evaluations[p].pc \in {"returned", "pushed", "none"}
    \/ \E p \in Postings : evaluations[p].pc = "rejected"

\* Line 529: await Promise.allSettled(promises) resumes the loop when every
\* callback of the page has returned or thrown.
PromisesSettled(evaluations) ==
    \A p \in Postings : evaluations[p].pc \in Settled \cup {"none"}

\* A break that waits for one record more than the quota.
QuotaReached_Strict(count, quota) == count > quota

\* Line 531: if (processedVacancies >= applicationsPerPosition) break.
QuotaReached(count, quota) == count >= quota

\* Lines 529-531: every callback of the page has settled.
AllSettled(r) ==
    /\ run[r] = "allSettled"
    /\ PromisesSettled(evaluation[r])
    /\ evaluation' = [evaluation EXCEPT ![r] = [p \in Postings |-> NoEvaluation]]
    /\ IF QuotaReached(processedVacancies[r], applicationsPerPosition[r])
       THEN /\ AfterLoop(r)
            /\ page' = page
       ELSE NextPage(r)
    /\ UNCHANGED <<UserModel, VacanciesModel, dispatchVars, fetched,
                   applicationsPerPosition, vacancyDocs, processedVacancies,
                   relevance, negotiationFailed, classified>>

\* Line 539 settles. The insert is unordered: the records that pass the
\* schema and that the database accepts are stored, an error is caught.
InsertManySettles(r, inserted) ==
    /\ run[r] = "insertMany"
    /\ inserted \subseteq ValidDocs(vacancyDocs[r])
    /\ VacanciesModel' = VacanciesModel \cup inserted
    /\ run' = [run EXCEPT ![r] = "done"]
    /\ UNCHANGED <<UserModel, dispatchVars, fetched, page,
                   applicationsPerPosition, vacancyDocs, processedVacancies,
                   evaluation, relevance, insertManyCalls, negotiationFailed,
                   classified>>

(***************************************************************************)
(* autoApply and processUsers (lines 549-575).                             *)
(***************************************************************************)

\* The cron job fires: autoApply calls UserModel.find({}).lean().
AutoApply ==
    /\ task = "scheduled"
    /\ task' = "find"
    /\ UNCHANGED <<UserModel, VacanciesModel, users, q, worker, refreshed,
                   runVars, fetched>>

\* The find fails: the catch of autoApply ends the batch.
FindFails ==
    /\ task = "find"
    /\ task' = "ended"
    /\ UNCHANGED <<UserModel, VacanciesModel, users, q, worker, refreshed,
                   runVars, fetched>>

\* The find returns: processUsers pushes every user and awaits the drain;
\* the queue starts the first workers, each calling refreshAccessToken.
FindSettles ==
    /\ task = "find"
    /\ users' = UserModel
    /\ LET started == Process([i \in 1..Len(UserModel) |-> i], worker)
       IN /\ q' = started[1]
          /\ worker' = started[2]
    /\ task' = "drain"
    /\ UNCHANGED <<UserModel, VacanciesModel, refreshed, runVars, fetched>>

\* The status left out of the test.
IsActive_AnyStatus(position) == position.position # ""

\* Line 553: if (position.position && position.status === 'Active').
IsActive(position) == position.position # "" /\ position.status = "Active"

\* Line 558, callback(): the worker of user u is over, the queue starts the
\* next waiting users, and drain resolves when the queue is idle.
Callback(u) ==
    LET started == Process(q, [worker EXCEPT ![u] = "done"])
    IN /\ q' = started[1]
       /\ worker' = started[2]
       /\ task' = IF \A v \in UserIds : started[2][v] = "done"
                  THEN "ended" ELSE task

\* Lines 551-557: the token request of refreshAccessToken settles, then the
\* map over the positions starts processVacancies for each Active one, which
\* runs up to its first await (the normalization call of page 1). With no
\* Active position every promise of the map is already resolved: allSettled
\* resumes the worker before any other call can settle, and it calls back.
RefreshSettles(u, outcome) ==
    /\ worker[u] = "refresh"
    /\ users' = [users EXCEPT ![u] = refreshAccessToken(@, outcome)]
    /\ refreshed' = [refreshed EXCEPT ![u] = outcome]
    /\ IF \E i \in DOMAIN users[u].positions : IsActive(users[u].positions[i])
       THEN /\ worker' = [worker EXCEPT ![u] = "positions"]
            /\ UNCHANGED <<task, q>>
       ELSE Callback(u)
    /\ LET started == { r \in RunIds : r[1] = u /\ IsActive(users[u].positions[r[2]]) }
           skipped == { r \in RunIds : r[1] = u /\ ~IsActive(users[u].positions[r[2]]) }
       IN /\ run' = [r \in RunIds |->
                       IF r \in started THEN "normalize"
                       ELSE IF r \in skipped THEN "returned"
                       ELSE run[r]]
          /\ page' = [r \in RunIds |-> IF r \in started THEN 1 ELSE page[r]]
          /\ applicationsPerPosition' = [r \in RunIds |->
                IF r \in started
                THEN getApplicationsPerPosition(Len(users[u].positions))
                ELSE applicationsPerPosition[r]]
    /\ UNCHANGED <<UserModel, VacanciesModel, vacancyDocs,
                   processedVacancies, evaluation, relevance, insertManyCalls,
                   negotiationFailed, fetched, classified>>

\* callback() called without waiting for the positions.
PositionPromisesSettled_NotAwaited(u, status) == TRUE

\* Line 557: await Promise.allSettled(positionPromises) resumes when the
\* callback of every position of the user has returned or thrown.
PositionPromisesSettled(u, status) ==
    \A r \in RunIds : r[1] = u => status[r] \in {"returned", "done", "rejected"}

\* Lines 557-558: every position's promise has settled; callback() frees the
\* worker, the queue starts the next user, and drain resolves when the queue
\* is idle.
PositionsSettled(u) ==
    /\ worker[u] = "positions"
    /\ PositionPromisesSettled(u, run)
    /\ Callback(u)
    /\ UNCHANGED <<UserModel, VacanciesModel, users, refreshed, runVars, fetched>>

Next ==
    \/ AutoApply
    \/ FindFails
    \/ FindSettles
    \/ \E u \in UserIds, outcome \in {"ok", "fail"} : RefreshSettles(u, outcome)
    \/ \E u \in UserIds : PositionsSettled(u)
    \/ \E r \in RunIds, outcome \in {"ok", "throw", "unparsable"} :
          NormalizeSettles(r, outcome)
    \/ \E r \in RunIds : GetVacancyFails(r)
    \/ \E r \in RunIds, items \in SUBSET Postings : GetVacancyReturns(r, items)
    \/ \E r \in RunIds, p \in Postings, outcome \in {"ok", "throw"} :
          FindOneSettles(r, p, outcome)
    \/ \E r \in RunIds, p \in Postings,
          outcome \in {"suitable", "notSuitable", "throw", "unparsable"} :
          IsSuitableSettles(r, p, outcome)
    \/ \E r \in RunIds, p \in Postings, resumeId \in {"resume", Undefined} :
          GetSuitableResumeIdSettles(r, p, resumeId)
    \/ \E r \in RunIds, p \in Postings, outcome \in {"ok", "throw"} :
          GetOneResumeSettles(r, p, outcome)
    \/ \E r \in RunIds, p \in Postings, outcome \in {"ok", "throw"} :
          LoadPDFSettles(r, p, outcome)
    \/ \E r \in RunIds, p \in Postings, outcome \in {"text", "throw"} :
          GenerateCoverLetterSettles(r, p, outcome)
    \/ \E r \in RunIds, p \in Postings, outcome \in {"ok", "fail"} :
          SendNegotiationSettles(r, p, outcome)
    \/ \E r \in RunIds : AllSettled(r)
    \/ \E r \in RunIds, inserted \in SUBSET UNION {vacancyDocs[x] : x \in RunIds} :
          InsertManySettles(r, inserted)

Spec == Init /\ [][Next]_vars

\* The batch over PoolStore. No user of it has an Active position, so
\* processVacancies is never called and no worker waits for a position: the
\* steps of the batch are those of autoApply and the settling token requests.
PoolInit == Start(PoolStore)

PoolNext ==
    \/ AutoApply
    \/ FindFails
    \/ FindSettles
    \/ \E u \in UserIds :
          \E outcome \in IF u <= MaxFailing THEN {"ok", "fail"} ELSE {"ok"} :
             RefreshSettles(u, outcome)

PoolSpec == PoolInit /\ [][PoolNext]_vars

(***************************************************************************)
(* Properties.                                                             *)
(***************************************************************************)

\* processVacancies was called for the position and ran past line 448.
Started(r) == run[r] \notin {"none", "returned"}

HasHHAccount(r) == UserModel[r[1]].hasHHAccount

StoredBy(r) == { doc \in VacanciesModel : doc.run = r }

DocsOf(r, p) == { doc \in vacancyDocs[r] : doc.vacancy_id = p.id }

\* C1: in every criterion run, the records accumulated and the records
\* committed by the run never number more than the quota computed at its
\* start.
C1_RecordsWithinQuota ==
    \A r \in RunIds :
        Started(r) =>
            /\ Cardinality(vacancyDocs[r]) <= applicationsPerPosition[r]
            /\ Cardinality(StoredBy(r)) <= applicationsPerPosition[r]

\* C2: no two stored records of the same user share both title and
\* employer, and no two share the posting identifier.
C2_NoDuplicateStoredRecords ==
    \A d1, d2 \in VacanciesModel :
        (d1 # d2 /\ d1.user = d2.user) =>
            /\ ~(d1.job_name = d2.job_name /\ d1.employer_name = d2.employer_name)
            /\ d1.vacancy_id # d2.vacancy_id

\* C3: the accumulator of a run never holds two records with the same
\* posting identifier, the same (title, employer) pair, or the same title.
C3_NoDuplicateInAccumulator ==
    \A r \in RunIds : \A d1, d2 \in vacancyDocs[r] :
        d1 # d2 =>
            /\ d1.vacancy_id # d2.vacancy_id
            /\ ~(d1.job_name = d2.job_name /\ d1.employer_name = d2.employer_name)
            /\ d1.job_name # d2.job_name

\* The quota as the specification states it.
StatedQuota(c) ==
    CASE c \in 0..4 -> 7
      [] c \in 5..7 -> 6
      [] c >= 8 -> 2

\* C4: for every count c, getApplicationsPerPosition(c) is 7 if c <= 4, 2 if
\* c >= 8 and 6 otherwise: on every count up to MaxCount, and for the quota
\* every started run holds, computed from the count the code passes.
C4_QuotaStepFunction ==
    /\ \A c \in 0..MaxCount : getApplicationsPerPosition(c) = StatedQuota(c)
    /\ \A r \in RunIds :
          Started(r) =>
              applicationsPerPosition[r] = StatedQuota(Len(users[r[1]].positions))

C4_Witness ==
    /\ \E r \in RunIds :
          /\ Started(r)
          /\ Len(users[r[1]].positions) = 5
          /\ applicationsPerPosition[r] = 6
          /\ run[r] = "done"

\* C5: the quota of a run is the quota function applied to the number of
\* the user's positions whose status is Active.
C5_QuotaFromActiveCount ==
    \A r \in RunIds :
        Started(r) =>
            applicationsPerPosition[r] = getApplicationsPerPosition(
                Cardinality({ i \in DOMAIN users[r[1]].positions :
                                users[r[1]].positions[i].status = "Active" }))

\* C6: a posting whose relevance call failed (it threw, or its answer could
\* not be parsed) ends its evaluation there: no cover letter is generated,
\* no submission is sent and no record of it is accumulated.
C6_RelevanceFailClosed ==
    \A r \in RunIds : \A p \in Postings :
        evaluation[r][p].relevanceFailed =>
            /\ evaluation[r][p].pc = "returned"
            /\ evaluation[r][p].coverLetter = "unset"
            /\ DocsOf(r, p) = {}
            /\ p \notin negotiationFailed[r]

C6_Witness ==
    \E r \in RunIds : \E p, o \in Postings :
        /\ evaluation[r][p].relevanceFailed
        /\ evaluation[r][p].pc = "returned"
        /\ evaluation[r][o].pc = "pushed"

\* C7: for a user with no linked account, a posting for which the generator
\* returned no content is skipped: no record of it is accumulated, no
\* accumulated record lacks its letter, and the count stays the number of
\* accumulated records.
C7_NoLetterNoRecord ==
    \A r \in RunIds :
        ~HasHHAccount(r) =>
            /\ \A p \in Postings :
                  NoCoverLetter(evaluation[r][p].coverLetter) =>
                      /\ evaluation[r][p].pc = "returned"
                      /\ DocsOf(r, p) = {}
            /\ \A doc \in vacancyDocs[r] : doc.cover_letter = "text"
            /\ processedVacancies[r] = Cardinality(vacancyDocs[r])

C7_Witness ==
    \E r \in RunIds : \E p \in Postings :
        /\ ~HasHHAccount(r)
        /\ evaluation[r][p].coverLetter = "null"
        /\ evaluation[r][p].pc = "returned"
        /\ DocsOf(r, p) = {}
        /\ processedVacancies[r] = 1

\* The record of a posting whose submission failed is accumulated, and is
\* in the argument of the insertMany call once the run has made it.
C8_FailedSubmissionKept ==
    \A r \in RunIds : \A p \in negotiationFailed[r] :
        /\ DocsOf(r, p) # {}
        /\ run[r] \in {"insertMany", "done"} =>
              /\ Len(insertManyCalls[r]) = 1
              /\ DocsOf(r, p) \subseteq insertManyCalls[r][1]

\* The step in which a submission fails for posting p leaves the run on its
\* page and every other evaluation of the page as it was.
C8_SiblingsUntouched ==
    \A r \in RunIds :
        negotiationFailed'[r] # negotiationFailed[r] =>
            /\ run'[r] = "allSettled"
            /\ \A o \in Postings :
                  o \notin negotiationFailed'[r] \ negotiationFailed[r] =>
                      evaluation'[r][o] = evaluation[r][o]

\* C8: a failing submission still leaves the posting's record accumulated
\* and committed, and does not stop the sibling evaluations of the page.
C8_SubmissionFailureIsolated ==
    /\ []C8_FailedSubmissionKept
    /\ [][C8_SiblingsUntouched]_vars

C8_Witness ==
    \E r \in RunIds : \E p, o \in Postings :
        /\ p \in negotiationFailed[r]
        /\ o \notin negotiationFailed[r]
        /\ run[r] = "done"
        /\ \E doc \in StoredBy(r) : doc.vacancy_id = p.id
        /\ \E doc \in StoredBy(r) : doc.vacancy_id = o.id

\* C9: processVacancies never rejects, whichever calls fail; and a finished
\* run in which every relevance call threw has accumulated and committed
\* nothing.
C9_NoErrorEscapes ==
    \A r \in RunIds :
        /\ run[r] # "rejected"
        /\ (run[r] = "done" /\ relevance[r] # "returned") =>
              /\ vacancyDocs[r] = {}
              /\ StoredBy(r) = {}
              /\ insertManyCalls[r] = <<>>

C9_Witness ==
    \E r \in RunIds :
        /\ run[r] = "done"
        /\ relevance[r] = "threw"
        /\ fetched = MaxEvaluations
        /\ page[r] = PageCap + 1
        /\ StoredBy(r) = {}

\* A user whose token request failed keeps the prior tokens, in the loaded
\* object and in the store, and processVacancies has been called for each
\* of its Active positions.
C10_FailedRefreshKeepsTokens ==
    \A u \in UserIds :
        refreshed[u] = "fail" =>
            /\ users[u].hhAccessToken = PriorToken
            /\ users[u].hhRefreshToken = PriorToken
            /\ UserModel[u].hhAccessToken = PriorToken
            /\ UserModel[u].hhRefreshToken = PriorToken
            /\ worker[u] \in {"positions", "done"}
            /\ \A r \in RunIds :
                  (r[1] = u /\ UserModel[u].positions[r[2]].status = "Active")
                      => Started(r)

\* The step in which the token request of user u fails changes nothing of
\* any other user.
C10_OthersUntouched ==
    \A u \in UserIds :
        (refreshed[u] = "none" /\ refreshed'[u] = "fail") =>
            \A v \in UserIds \ {u} :
                /\ users'[v] = users[v]
                /\ worker'[v] = worker[v]
                /\ refreshed'[v] = refreshed[v]
                /\ \A r \in RunIds : r[1] = v =>
                      /\ run'[r] = run[r]
                      /\ vacancyDocs'[r] = vacancyDocs[r]
                      /\ evaluation'[r] = evaluation[r]

\* C10: when a user's credential refresh fails, the user keeps the prior
\* credentials, every Active criterion of the user is still run, and the
\* other users of the batch are not affected.
C10_RefreshFailureIsolated ==
    /\ []C10_FailedRefreshKeepsTokens
    /\ [][C10_OthersUntouched]_vars

C10_Witness ==
    \E u, v \in UserIds :
        /\ u # v
        /\ refreshed[u] = "fail"
        /\ refreshed[v] = "ok"
        /\ task = "ended"
        /\ \E doc \in VacanciesModel : doc.run[1] = u
        /\ \E doc \in VacanciesModel : doc.run[1] = v

\* A criterion run that is over: skipped, ended or thrown, with no call left.
Finished(r) ==
    /\ run[r] \in {"returned", "done", "rejected"}
    /\ \A p \in Postings : evaluation[r][p].pc = "none"

\* C11: when processUsers has returned, the worker of every user of the
\* list it was given has called back, every criterion run of every such
\* user is over, and none has a call in flight.
C11_ReturnsAfterAllSettled ==
    (task = "ended" /\ users # <<>>) =>
        \A u \in DOMAIN users :
            /\ worker[u] = "done"
            /\ \A r \in RunIds : r[1] = u => Finished(r)

C11_Witness ==
    /\ task = "ended"
    /\ Len(users) = 2
    /\ \A u \in DOMAIN users : worker[u] = "done"
    /\ \E r \in RunIds : r[1] = 1 /\ run[r] = "done" /\ page[r] = PageCap + 1
    /\ \E r \in RunIds : r[1] = 2 /\ run[r] = "done" /\ StoredBy(r) # {}

\* C12: the batch always comes to its end: as long as autoApply has not
\* returned, some call it waits for is still to settle (every call settles
\* in the end, so a batch that waits for none never returns).
C12_BatchCompletes == task = "ended" \/ ENABLED Next

\* The users whose worker is running: started and not yet called back.
Running == { u \in UserIds : worker[u] \in {"refresh", "positions"} }

\* C13: at most Concurrency users are being processed at any moment, users
\* start in the order of the list, and a user beyond the first Concurrency
\* has started only if a user before it has finished.
C13_AtMostTenRunning ==
    /\ Cardinality(Running) <= Concurrency
    /\ \A u \in UserIds :
          worker[u] # "none" =>
              /\ \A v \in 1..(u - 1) : worker[v] # "none"
              /\ u > Concurrency => \E v \in 1..(u - 1) : worker[v] = "done"

C13_Witness ==
    /\ Cardinality(Running) = Concurrency
    /\ worker[Concurrency + 1] = "refresh"
    /\ Cardinality({ u \in UserIds : worker[u] = "done" }) = 1
    /\ refreshed[1] = "fail"

InFlight(r) == { p \in Postings : evaluation[r][p].pc \notin Settled \cup {"none"} }

\* While a run normalizes the search term or fetches a page, no evaluation
\* of an earlier page is in flight, and the page is one of the six.
C14_FetchAfterSettled ==
    \A r \in RunIds :
        run[r] \in {"normalize", "getVacancy"} =>
            /\ \A p \in Postings : evaluation[r][p].pc = "none"
            /\ page[r] \in 1..PageCap

\* A step that changes the page of a run moves it to the next page, and is
\* taken with no evaluation of the page in flight.
C14_NextPageAfterSettled ==
    \A r \in RunIds :
        page'[r] # page[r] =>
            /\ page'[r] = page[r] + 1
            /\ InFlight(r) = {}

\* C14: within a criterion run the pages are processed in increasing order,
\* one by one, and the fetch of page N+1 never starts before every
\* evaluation of page N has settled.
C14_PagesInOrder ==
    /\ []C14_FetchAfterSettled
    /\ [][C14_NextPageAfterSettled]_vars

C14_Witness ==
    \E r \in RunIds : \E p \in Postings :
        /\ run[r] = "getVacancy"
        /\ page[r] = 2
        /\ p \in classified[r]
        /\ processedVacancies[r] = 1

\* The records of the user of run r that were in the store before the batch.
PersistedBefore(r) ==
    { doc \in VacanciesModel : doc.run = OldRun /\ doc.user = UserModel[r[1]]._id }

\* C15: a posting whose title is the title of a record persisted for the
\* user of the run is never passed to the relevance classifier (hence never
\* to the generator, which is called after it) and yields no record.
C15_PersistedTitleSkipped ==
    \A r \in RunIds : \A p \in Postings :
        (\E doc \in PersistedBefore(r) : doc.job_name = p.name) =>
            /\ p \notin classified[r]
            /\ evaluation[r][p].pc \notin {"isSuitable", "generateCoverLetter", "pushed"}
            /\ DocsOf(r, p) = {}

\* The step passes posting p of run r to isSuitableVacancy.
Classifies(r, p) ==
    evaluation[r][p].pc = "findOne" /\ evaluation'[r][p].pc = "isSuitable"

\* C16: within a criterion run no posting is passed to the relevance
\* classifier more than once, on whichever pages the job board returns it
\* (hence none to the generator more than once: a callback calls the
\* generator only after the classifier, for the same posting).
C16_EvaluatedOnce ==
    [][\A r \in RunIds : \A p \in Postings :
          Classifies(r, p) => p \notin classified[r]]_vars

InLoop(r) == run[r] \in {"normalize", "getVacancy", "allSettled"}

\* A run in its loop is on one of the pages 1..PageCap.
C17_PageWithinCap ==
    \A r \in RunIds :
        /\ page[r] <= PageCap + 1
        /\ InLoop(r) => page[r] \in 1..PageCap

\* A run leaves its loop only after a page has settled with the count at
\* the quota or more, or from page PageCap; and when a page has settled
\* with the count at the quota or more, the run leaves the loop on that
\* page.
C17_LoopExit ==
    \A r \in RunIds :
        /\ (InLoop(r) /\ run'[r] \in {"insertMany", "done"}) =>
              \/ /\ run[r] = "allSettled"
                 /\ processedVacancies[r] >= applicationsPerPosition[r]
              \/ page[r] = PageCap
        /\ (run[r] = "allSettled" /\ run'[r] # "allSettled"
               /\ processedVacancies[r] >= applicationsPerPosition[r]) =>
              /\ run'[r] \in {"insertMany", "done"}
              /\ page'[r] = page[r]

\* C17: a run fetches at most PageCap pages; it stops paginating as soon
\* as a page has settled with the accumulated count at the quota or more,
\* and otherwise goes on to the next page up to page PageCap: an empty
\* page, or a page of which nothing is kept, never ends the run.
C17_PaginationStops ==
    /\ []C17_PageWithinCap
    /\ [][C17_LoopExit]_vars

C17_Witness ==
    \E r \in RunIds :
        /\ run[r] = "insertMany"
        /\ page[r] = 2
        /\ processedVacancies[r] = applicationsPerPosition[r]
        /\ Cardinality(classified[r]) = MaxEvaluations

\* The step in which the normalization call of run r fails: the only step
\* that moves a run from its normalization call to another page.
NormalizationFails(r) == run[r] = "normalize" /\ page'[r] # page[r]

\* C18: a failing normalization step aborts the criterion run: the run is
\* over at once, without another normalization call, search or evaluation
\* and without a call of insertMany.
C18_NormalizationFailureAborts ==
    [][\A r \in RunIds :
          NormalizationFails(r) =>
              /\ run'[r] = "done"
              /\ insertManyCalls'[r] = insertManyCalls[r]]_vars

\* C19: a run calls insertMany at most once, after its loop has ended and
\* with no evaluation in flight, on the whole accumulator; a run past its
\* loop has called it if and only if the accumulator is not empty, and a
\* run with an empty accumulator has stored nothing.
C19_CommitOnceAfterLoop ==
    \A r \in RunIds :
        /\ Len(insertManyCalls[r]) <= 1
        /\ insertManyCalls[r] # <<>> =>
              /\ run[r] \in {"insertMany", "done"}
              /\ \A p \in Postings : evaluation[r][p].pc = "none"
              /\ insertManyCalls[r][1] = vacancyDocs[r]
        /\ run[r] \in {"insertMany", "done"} =>
              (insertManyCalls[r] # <<>> <=> vacancyDocs[r] # {})
        /\ vacancyDocs[r] = {} => StoredBy(r) = {}

C19_Witness ==
    \E r \in RunIds :
        /\ run[r] = "done"
        /\ insertManyCalls[r] = <<vacancyDocs[r]>>
        /\ Cardinality(vacancyDocs[r]) = 2
        /\ Cardinality(StoredBy(r)) = 1

\* C20: a posting for which the generator returned null is skipped, with
\* and without a linked account: its callback returns there, no submission
\* is sent with the null letter and no record without letter is accumulated
\* or stored.
C20_NullLetterSkipped ==
    /\ \A r \in RunIds : \A p \in Postings :
          evaluation[r][p].coverLetter = "null" =>
              /\ evaluation[r][p].pc = "returned"
              /\ DocsOf(r, p) = {}
    /\ \A r \in RunIds : \A doc \in vacancyDocs[r] : doc.cover_letter # "null"
    /\ \A doc \in VacanciesModel : doc.cover_letter # "null"

\* C21: with a linked account, a posting for which getSuitableResumeId
\* yields no identifier is skipped: its callback makes no resume fetch, no
\* generator call and no submission, and no record of it is accumulated.
C21_NoResumeSkipped ==
    \A r \in RunIds : \A p \in Postings :
        (HasHHAccount(r) /\ evaluation[r][p].resumeId = Undefined) =>
            /\ evaluation[r][p].pc \notin
                  {"getOneResume", "loadPDF", "generateCoverLetter",
                   "sendNegotiation", "pushed"}
            /\ DocsOf(r, p) = {}

\* C22: processVacancies runs for exactly the Active positions of a user.
\* A position with another status is skipped: no search, no evaluation, no
\* submission and no record come from it; an Active position is run as
\* soon as the worker of its user has passed the credential refresh.
C22_OnlyActiveRun ==
    \A r \in RunIds :
        IF UserModel[r[1]].positions[r[2]].status = "Active"
        THEN worker[r[1]] \in {"positions", "done"} => Started(r)
        ELSE /\ run[r] \in {"none", "returned"}
             /\ worker[r[1]] \in {"positions", "done"} => run[r] = "returned"
             /\ page[r] = 0
             /\ \A p \in Postings : evaluation[r][p] = NoEvaluation
             /\ classified[r] = {}
             /\ negotiationFailed[r] = {}
             /\ vacancyDocs[r] = {}
             /\ insertManyCalls[r] = <<>>
             /\ StoredBy(r) = {}

C22_Witness ==
    \E r, o \in RunIds :
        /\ r[1] = o[1]
        /\ UserModel[r[1]].positions[r[2]].status = "Active"
        /\ UserModel[o[1]].positions[o[2]].status = "Paused"
        /\ run[r] = "done"
        /\ StoredBy(r) # {}
        /\ run[o] = "returned"
        /\ task = "ended"

\* The sendNegotiation calls run r has made. With a linked account every
\* push follows a settled call and every settled call pushes (lines
\* 502-526), so the calls are the records counted and the calls in flight.
SubmissionCalls(r) ==
    processedVacancies[r]
        + Cardinality({ p \in Postings : evaluation[r][p].pc = "sendNegotiation" })

\* C23: for a user with a linked account, a criterion run never makes more
\* sendNegotiation calls than its quota.
C23_SubmissionsWithinQuota ==
    \A r \in RunIds :
        (HasHHAccount(r) /\ Started(r)) =>
            SubmissionCalls(r) <= applicationsPerPosition[r]

====
